---- MODULE Spec2Model ----
(***************************************************************************)
(* LeetCode -> GitHub synchroniser (src/index.js).                         *)
(*                                                                         *)
(* One run of sync(): list the newest commits of the branch, recover the   *)
(* watermark from the newest commit that carries the sync marker, fetch    *)
(* the submission pages newest-first through addToSubmissions, then replay *)
(* the accumulator backwards (oldest first), one createTree, createCommit  *)
(* and updateRef per submission.  The hosting repository and the           *)
(* submission source are the environment.                                  *)
(*                                                                         *)
(* Spec runs sync() repeatedly against a growing source and other writers  *)
(* between the runs; SpecDedup is the fetch loop alone over any source     *)
(* list; SpecRace lets another writer push during a run; SpecNormalize and *)
(* SpecThrottle exercise normalizeName and the throttling handlers.        *)
(***************************************************************************)
EXTENDS Integers, Sequences, FiniteSets, TLC

\* ---------------------------------------------------------------- bounds
MaxSubs   == 3      \* submissions the source ever holds
MaxTime   == 3      \* largest submission timestamp (epoch seconds)
MaxRuns   == 2      \* runs of sync() in one behaviour
MaxPushes == 1      \* pushes by other writers in one behaviour
PageSize  == 2      \* records the source puts on one page
DedupWindow == 2    \* input filter-duplicate-secs of the runs
MaxTitleLen == 3    \* longest title handed to normalizeName on its own
MaxSignals == 3     \* answers the hosting service has ready for one call

\* ------------------------------------------------------ program constants
COMMIT_MESSAGE == "Sync LeetCode submission"
PER_PAGE == 100
LIMIT == 20
MAX_RETRIES == 5
\* Line 81: the ref every updateRef names.  listCommits names no branch and
\* lists the repository's default branch (lines 136-140): the default branch
\* is taken to be this one, the variable head.
REF == "heads/master"
BACKOFF_BASE == 3
INTER_REQUEST_DELAY == 1000

LANG_TO_EXTENSION ==
  [l \in {"bash", "c", "cpp", "csharp", "golang", "java", "javascript",
          "kotlin", "mysql", "php", "python", "python3", "ruby", "rust",
          "scala", "swift"} |->
     CASE l = "bash" -> "sh"
       [] l = "c" -> "c"
       [] l = "cpp" -> "cpp"
       [] l = "csharp" -> "cs"
       [] l = "golang" -> "go"
       [] l = "java" -> "java"
       [] l = "javascript" -> "js"
       [] l = "kotlin" -> "kt"
       [] l = "mysql" -> "sql"
       [] l = "php" -> "php"
       [] l = "python" -> "py"
       [] l = "python3" -> "py"
       [] l = "ruby" -> "rb"
       [] l = "rust" -> "rs"
       [] l = "scala" -> "scala"
       [] l = "swift" -> "swift"]

\* ------------------------------------------------------------ environment
\* Titles are sequences of one-character strings.
\* What a verdict the platform adds between two runs looks like.
\* The property names every object literal inherits from Object.prototype.
OBJECT_PROTOTYPE_KEYS ==
  {"constructor", "__defineGetter__", "__defineSetter__", "hasOwnProperty",
   "__lookupGetter__", "__lookupSetter__", "isPrototypeOf",
   "propertyIsEnumerable", "toString", "valueOf", "__proto__",
   "toLocaleString"}

\* An inherited member as the path template prints it.
InheritedText(key) ==
  CASE key = "__proto__" -> "[object Object]"
    [] key = "constructor" -> "function Object() { [native code] }"
    [] key = "__defineGetter__" ->
         "function __defineGetter__() { [native code] }"
    [] key = "__defineSetter__" ->
         "function __defineSetter__() { [native code] }"
    [] key = "hasOwnProperty" -> "function hasOwnProperty() { [native code] }"
    [] key = "__lookupGetter__" ->
         "function __lookupGetter__() { [native code] }"
    [] key = "__lookupSetter__" ->
         "function __lookupSetter__() { [native code] }"
    [] key = "isPrototypeOf" -> "function isPrototypeOf() { [native code] }"
    [] key = "propertyIsEnumerable" ->
         "function propertyIsEnumerable() { [native code] }"
    [] key = "toString" -> "function toString() { [native code] }"
    [] key = "valueOf" -> "function valueOf() { [native code] }"
    [] key = "toLocaleString" -> "function toLocaleString() { [native code] }"

SourceKinds ==
  { [title |-> <<"A", " ", "b">>, lang |-> "constructor",
     status_display |-> "Accepted"],
    [title |-> <<"c">>, lang |-> "python3", status_display |-> "Accepted"],
    [title |-> <<"c">>, lang |-> "haskell", status_display |-> "Accepted"],
    [title |-> <<"c">>, lang |-> "python3",
     status_display |-> "Wrong Answer"] }

\* The records addToSubmissions is tried on: two titles with one normalized
\* name, a second name, a second language, a language named like the
\* inherited accessor "__proto__", a rejected verdict.
DedupKinds ==
  { [title |-> <<"A", " ", "b">>, lang |-> "python3",
     status_display |-> "Accepted"],
    [title |-> <<"a", "\t", "B">>, lang |-> "python3",
     status_display |-> "Accepted"],
    [title |-> <<"A", " ", "b">>, lang |-> "haskell",
     status_display |-> "Accepted"],
    [title |-> <<"c">>, lang |-> "python3", status_display |-> "Accepted"],
    [title |-> <<"c">>, lang |-> "__proto__", status_display |-> "Accepted"],
    [title |-> <<"A", " ", "b">>, lang |-> "python3",
     status_display |-> "Wrong Answer"] }

\* -------------------------------------------------------------- utilities
Min(a, b) == IF a < b THEN a ELSE b

\* String.prototype.toLowerCase on one character of the alphabet.
ToLowerChar(ch) ==
  CASE ch = "A" -> "a"
    [] ch = "B" -> "b"
    [] ch = "C" -> "c"
    [] OTHER -> ch

\* The class \s on the alphabet.
IsWhitespace(ch) == ch \in {" ", "\t", "\n"}

\* problemName.toLowerCase().replace(/\s/g, '_')
normalizeNameFirst(title) ==
  LET ws == { k \in 1..Len(title) : IsWhitespace(ToLowerChar(title[k])) }
  IN  [k \in 1..Len(title) |->
         IF k \in ws /\ \A j \in ws : k <= j THEN "_"
         ELSE ToLowerChar(title[k])]
normalizeName(problemName) ==
  [k \in 1..Len(problemName) |->
     IF IsWhitespace(ToLowerChar(problemName[k])) THEN "_"
     ELSE ToLowerChar(problemName[k])]

\* new Date(ms).toISOString(): calendar text with millisecond precision,
\* kept as its whole-second part and its millisecond part.
toISOString(ms) == [sec |-> ms \div 1000, milli |-> ms % 1000]

\* Date.parse(text): milliseconds since the epoch.
DateParse(iso) == iso.sec * 1000 + iso.milli

\* message.startsWith(COMMIT_MESSAGE); a message is the tuple of its parts.
StartsWithMarker(message) == Len(message) > 0 /\ message[1] = COMMIT_MESSAGE

\* ------------------------------------------------------- addToSubmissions
EmptyDict == [n \in {} |-> [l \in {} |-> 0]]

\* A value read from a property: a number, a member inherited from
\* Object.prototype (a function, or Object.prototype itself for "__proto__"),
\* or undefined.
Undefined == [type |-> "undefined", value |-> 0]
NumberValue(n) == [type |-> "number", value |-> n]
InheritedValue(key) ==
  [type |-> IF key = "__proto__" THEN "object" ELSE "function", value |-> 0]

\* The truthiness of a value read: undefined and 0 are falsy, functions and
\* objects are truthy.
Truthy(v) ==
  CASE v.type = "number" -> v.value /= 0
    [] v.type = "undefined" -> FALSE
    [] OTHER -> TRUE

\* submissions_dict[name][lang], read after the entry of name exists.  The
\* entry is an object literal, so a lang it does not own is looked up on
\* Object.prototype.
DictGet(dict, name, lang) ==
  IF name \in DOMAIN dict /\ lang \in DOMAIN dict[name]
  THEN NumberValue(dict[name][lang])
  ELSE IF lang \in OBJECT_PROTOTYPE_KEYS THEN InheritedValue(lang)
  ELSE Undefined

\* if (!submissions_dict[name]) submissions_dict[name] = {};
\* Names are normalized titles over the alphabet of the source kinds; none of
\* them spells a member of Object.prototype, so the lookup by name only ever
\* finds own entries.
DictTouch(dict, name) ==
  IF name \in DOMAIN dict THEN dict
  ELSE [n \in DOMAIN dict \cup {name} |->
          IF n = name THEN [l \in {} |-> 0] ELSE dict[n]]

\* submissions_dict[name][lang] = timestamp;
\* An assignment to "__proto__" runs the inherited setter, which ignores a
\* number: the entry gains no own property.  Any other lang becomes an own
\* property (shadowing an inherited member of the same name).
DictPut(dict, name, lang, ts) ==
  IF lang = "__proto__" THEN dict
  ELSE [dict EXCEPT ![name] =
          [l \in DOMAIN dict[name] \cup {lang} |->
             IF l = lang THEN ts ELSE dict[name][l]]]

\* submission.timestamp <= lastTimestamp
ReachedWatermarkStrict(submission, lastTs) == submission.timestamp < lastTs
ReachedWatermark(submission, lastTs) == submission.timestamp <= lastTs

\* submission.status_display !== 'Accepted'
NotAcceptedNever(submission) == FALSE
NotAccepted(submission) == submission.status_display /= "Accepted"

\* submissions_dict[name][lang] &&
\*   submissions_dict[name][lang] - submission.timestamp < filterDuplicateSecs
\* A function or object minus a number is NaN, and NaN < window is false.
IsDuplicate(dict, name, lang, ts, window) ==
  LET v == DictGet(dict, name, lang)
  IN /\ Truthy(v)
     /\ v.type = "number"
     /\ v.value - ts < window

\* The for loop of addToSubmissions from record k of the page on.  seen is
\* the number of records the loop has examined.
RECURSIVE AddLoop(_, _, _, _, _, _)
AddLoop(dump, k, lastTs, window, dict, subs) ==
  IF k > Len(dump)
  THEN [cont |-> TRUE, dict |-> dict, subs |-> subs, seen |-> k - 1]
  ELSE
    LET submission == dump[k]
        name == normalizeName(submission.title)
        lang == submission.lang
        touched == DictTouch(dict, name)
    IN  IF ReachedWatermark(submission, lastTs)
        THEN [cont |-> FALSE, dict |-> dict, subs |-> subs, seen |-> k]
        ELSE IF NotAccepted(submission)
        THEN AddLoop(dump, k + 1, lastTs, window, dict, subs)
        ELSE IF IsDuplicate(touched, name, lang, submission.timestamp, window)
        THEN AddLoop(dump, k + 1, lastTs, window, touched, subs)
        ELSE AddLoop(dump, k + 1, lastTs, window,
                     DictPut(touched, name, lang, submission.timestamp),
                     Append(subs, submission))

addToSubmissions(response, lastTs, window, dict, subs) ==
  AddLoop(response.submissions_dump, 1, lastTs, window, dict, subs)

\* ------------------------------------------------------------------ state
VARIABLES
  upstream,             \* the source's submissions, newest first
  commits,              \* hosting service: commit objects, sha = index
  trees,                \* hosting service: tree objects, sha = index
  head,                 \* hosting service: heads/master
  pushes,               \* pushes by other writers so far
  runs,                 \* runs of sync() started so far
  pc,                   \* where the current run stands
  failure,              \* what made the run fail
  filterDuplicateSecs,  \* input filter-duplicate-secs
  commitsData,          \* commits.data of listCommits, newest first
  lastTimestamp,
  commitInfo,
  response,             \* last page response, NoResponse before the first
  offset,
  submissions_dict,
  submissions,
  i,                    \* replay index, Len(submissions) down to 1
  treeSHA,
  latestCommitSHA,
  treeResponse,         \* treeResponse.data.sha inside commit()
  commitResponse,       \* commitResponse.data.sha inside commit()
  ret,                  \* what the last addToSubmissions call returned
  requests,             \* page requests issued by this run
  calls,                \* hosting write calls issued by this run
  created,              \* commits createCommit made for this run, in order
  startEnv,             \* the environment as the current run found it
  prev,                 \* how the previous run ended
  retryCount,           \* retryCount of the getSubmissions call in progress
  delays,               \* the delay() calls since the last page response, ms
  problemName,          \* argument of the normalizeName call on trial
  normalized,           \* what that call returned
  call                  \* one hosting call under the throttling plugin

vars == << upstream, commits, trees, head, pushes, runs, pc, failure,
           filterDuplicateSecs, commitsData, lastTimestamp, commitInfo,
           response, offset, submissions_dict, submissions, i, treeSHA,
           latestCommitSHA, treeResponse, commitResponse, ret, requests,
           calls, created, startEnv, prev, retryCount, delays, problemName,
           normalized, call >>

envVars == << upstream, pushes >>
repoVars == << commits, trees, head >>
fetchVars == << response, offset, submissions_dict, submissions, ret,
               requests >>
headerVars == << filterDuplicateSecs, commitsData, lastTimestamp, commitInfo >>
replayVars == << i, treeSHA, latestCommitSHA, treeResponse, commitResponse >>
retryVars == << retryCount, delays >>
sideVars == << problemName, normalized, call >>

NoResponse == [submissions_dump |-> << >>, has_next |-> FALSE, last_key |-> -1]
NoName == << >>
NoCall == [method |-> "none", script |-> << >>, retryCount |-> 0,
           attempts |-> 0, status |-> "idle"]
NoCalls == [createTree |-> 0, createCommit |-> 0, updateRef |-> 0]
NoRet == [cont |-> TRUE, seen |-> 0]
NoEnv == [nsubs |-> 0, pushes |-> 0, ncommits |-> 1, ntrees |-> 1]
NoPrev == [outcome |-> "none", failure |-> "none", pending |-> {},
           nsubs |-> 0, pushes |-> 0, committed |-> 0, clean |-> TRUE]

Running == pc \in {"fetch", "replay", "createCommit", "updateRef"}

\* --------------------------------------------------------- hosting service
RootTree == [base_tree |-> 0, path |-> << >>, content |-> 0]

Identity(name, date) == [name |-> name, date |-> date]

RootCommit ==
  [parent |-> 0, tree |-> 1, message |-> <<"Initial commit">>,
   author |-> Identity("owner", toISOString(0)),
   committer |-> Identity("owner", toISOString(0))]

\* A commit another writer pushes on top of parent.
OtherCommit(store, parent) ==
  [parent |-> parent, tree |-> store[parent].tree, message |-> <<"Edit">>,
   author |-> Identity("other", toISOString(0)),
   committer |-> Identity("other", toISOString(0))]

\* The store after another writer pushed n commits on top of parent.
PushOthers(store, parent, n) ==
  [k \in 1..(Len(store) + n) |->
     IF k <= Len(store) THEN store[k]
     ELSE [OtherCommit(store, parent) EXCEPT
             !.parent = IF k = Len(store) + 1 THEN parent ELSE k - 1]]

\* The first-parent chain from sha, newest first, at most n commits (the
\* walk is split in halves to keep the evaluation shallow).
RECURSIVE Ancestry(_, _, _)
Ancestry(store, sha, n) ==
  IF sha = 0 \/ n = 0 THEN << >>
  ELSE IF n = 1 THEN <<sha>>
  ELSE LET half == n \div 2
           first == Ancestry(store, sha, half)
       IN  IF Len(first) < half THEN first
           ELSE first \o Ancestry(store, store[first[half]].parent, n - half)

\* octokit.repos.listCommits({per_page: 100}): the newest commits of the
\* default branch, each with its sha and its commit object.
listCommits(store, ref) ==
  LET shas == Ancestry(store, ref, PER_PAGE)
  IN  [k \in 1..Len(shas) |-> [sha |-> shas[k], commit |-> store[shas[k]]]]

\* ------------------------------------------------------ submission source
\* The page the source returns for a continuation key: the next records,
\* newest first, at most limit of them.
PageFrom(list, lastkey, limit) ==
  LET from == IF lastkey < 0 THEN 0 ELSE lastkey
      n == Min(Min(limit, PageSize), Len(list) - from)
  IN  [submissions_dump |-> SubSeq(list, from + 1, from + n),
       has_next |-> from + n < Len(list),
       last_key |-> from + n]

\* ----------------------------------------------------- watermark resolution
\* Index of the first commit of data whose message starts with the marker,
\* 0 when there is none.
LastMarked(data) ==
  LET marked == { k \in 1..Len(data) :
                    StartsWithMarker(data[k].commit.message) }
  IN  IF marked = {} THEN 0
      ELSE CHOOSE k \in marked : \A j \in marked : k >= j

FirstMarked(data) ==
  LET marked == { k \in 1..Len(data) :
                    StartsWithMarker(data[k].commit.message) }
  IN  IF marked = {} THEN 0
      ELSE CHOOSE k \in marked : \A j \in marked : k <= j

\* lastTimestamp after the scan of commits.data
ResolveTimestampMillis(data) ==
  LET k == FirstMarked(data)
  IN  IF k = 0 THEN 0
      ELSE DateParse(data[k].commit.committer.date)
ResolveTimestamp(data) ==
  LET k == FirstMarked(data)
  IN  IF k = 0 THEN 0
      ELSE DateParse(data[k].commit.committer.date) \div 1000

\* commitInfo after the scan of commits.data
ResolveCommitInfoNewest(data) ==
  LET k == FirstMarked(data)
  IN  IF k = 0 THEN data[1].commit.author
      ELSE data[k].commit.author
ResolveCommitInfo(data) ==
  LET k == FirstMarked(data)
  IN  IF k = 0 THEN data[Len(data)].commit.author
      ELSE data[k].commit.author

\* ----------------------------------------------------------------- commit
\* LANG_TO_EXTENSION[submission.lang] is truthy
\* LANG_TO_EXTENSION is an object literal: a lookup that misses its own
\* keys goes on to Object.prototype, whose members are all truthy.
HasExtension(lang) ==
  lang \in DOMAIN LANG_TO_EXTENSION \/ lang \in OBJECT_PROTOTYPE_KEYS

\* `${LANG_TO_EXTENSION[submission.lang]}` inside the path template
ExtensionOf(lang) ==
  IF lang \in DOMAIN LANG_TO_EXTENSION THEN LANG_TO_EXTENSION[lang]
  ELSE IF lang \in OBJECT_PROTOTYPE_KEYS THEN InheritedText(lang)
  ELSE "undefined"

\* path: `problems/${name}/solution.${extension}`
PathOf(submission) ==
  <<"problems", normalizeName(submission.title),
    "solution", ExtensionOf(submission.lang)>>

\* createTree({base_tree: treeSHA, tree: treeData})
NewTree(base, submission) ==
  [base_tree |-> base, path |-> PathOf(submission),
   content |-> submission.code]

\* new Date(submission.timestamp * 1000).toISOString()
CommitDateEpoch(submission) == toISOString(0)
CommitDate(submission) == toISOString(submission.timestamp * 1000)

\* parents: [latestCommitSHA]
ParentOfNone(latest) == 0
ParentOf(latest) == latest

\* createCommit({message, tree, parents, author, committer})
NewCommit(submission, tree, latest, info) ==
  [parent |-> ParentOf(latest), tree |-> tree,
   message |-> <<COMMIT_MESSAGE, submission.title, submission.lang>>,
   author |-> Identity(info.name, CommitDate(submission)),
   committer |-> Identity(info.name, CommitDate(submission))]

\* submission = submissions[i] in the replay loop (i counts from 1 here)
SubmissionAtForward(subs, k) == subs[Len(subs) + 1 - k]
SubmissionAt(subs, k) == subs[k]

\* What a run leaves unsynced when it stops with replay index k.
Pending(subs, k) == { subs[j] : j \in 1..k }

\* ------------------------------------------------------------------- Init
\* No run has started: an empty source and a repository with its root
\* commit.
Dormant ==
  /\ upstream = << >>
  /\ commits = <<RootCommit>>
  /\ trees = <<RootTree>>
  /\ head = 1
  /\ pushes = 0
  /\ runs = 0
  /\ failure = "none"
  /\ filterDuplicateSecs = DedupWindow
  /\ commitsData = << >>
  /\ lastTimestamp = 0
  /\ commitInfo = RootCommit.author
  /\ response = NoResponse
  /\ offset = 0
  /\ submissions_dict = EmptyDict
  /\ submissions = << >>
  /\ i = 0
  /\ treeSHA = 0
  /\ latestCommitSHA = 0
  /\ treeResponse = 0
  /\ commitResponse = 0
  /\ ret = NoRet
  /\ requests = << >>
  /\ calls = NoCalls
  /\ created = << >>
  /\ startEnv = NoEnv
  /\ prev = NoPrev
  /\ retryCount = 0
  /\ delays = << >>

Init ==
  /\ Dormant
  /\ pc = "idle"
  /\ problemName = NoName
  /\ normalized = NoName
  /\ call = NoCall

\* ------------------------------------------------------------ environment
\* The newest timestamp of the source, 0 while it is empty.
Newest(list) == IF Len(list) = 0 THEN 0 ELSE list[1].timestamp

\* The user gets one more verdict from the platform, in the same second as
\* the newest one or in the next: the list stays newest first.
NewSubmission ==
  /\ ~Running
  /\ Len(upstream) < MaxSubs
  /\ \E kind \in SourceKinds, ts \in 1..MaxTime :
       /\ ts \in {Newest(upstream), Newest(upstream) + 1}
       /\ upstream' = << [title |-> kind.title, lang |-> kind.lang,
                          status_display |-> kind.status_display,
                          timestamp |-> ts,
                          code |-> Len(upstream) + 1] >> \o upstream
  /\ UNCHANGED << retryVars, sideVars, pushes, repoVars, runs, pc, failure,
                  headerVars, fetchVars, replayVars, calls, created, startEnv,
                  prev >>

\* Another writer pushes n commits on top of the branch between two runs.
ExternalPush ==
  /\ ~Running
  /\ pushes < MaxPushes
  /\ \E n \in {1, PER_PAGE} :
       /\ commits' = PushOthers(commits, head, n)
       /\ head' = Len(commits) + n
  /\ pushes' = pushes + 1
  /\ UNCHANGED << retryVars, sideVars, upstream, trees, runs, pc, failure,
                  headerVars, fetchVars, replayVars, calls, created, startEnv,
                  prev >>

\* ------------------------------------------------------------------- sync
\* sync() is entered: a new run with fresh locals.
EnterSync ==
  /\ ~Running
  /\ runs < MaxRuns
  /\ runs' = runs + 1
  /\ prev' = IF pc = "idle" THEN NoPrev
             ELSE [outcome |-> pc, failure |-> failure,
                   pending |-> IF failure = "fetch"
                               THEN Pending(submissions, Len(submissions))
                               ELSE Pending(submissions, i),
                   nsubs |-> startEnv.nsubs, pushes |-> startEnv.pushes,
                   committed |-> IF failure = "fetch" THEN 0
                                 ELSE Len(submissions) - i,
                   clean |-> prev.clean /\ pc = "done"]
  /\ startEnv' = [nsubs |-> Len(upstream), pushes |-> pushes,
                  ncommits |-> Len(commits), ntrees |-> Len(trees)]
  /\ ret' = NoRet
  /\ retryCount' = 0
  /\ delays' = << >>
  /\ response' = NoResponse
  /\ offset' = 0
  /\ submissions' = << >>
  /\ submissions_dict' = EmptyDict
  /\ requests' = << >>
  /\ i' = 0
  /\ treeSHA' = 0
  /\ latestCommitSHA' = 0
  /\ treeResponse' = 0
  /\ commitResponse' = 0
  /\ calls' = NoCalls
  /\ created' = << >>
  /\ UNCHANGED << sideVars, envVars, repoVars, filterDuplicateSecs >>

\* sync() up to the fetch loop: listCommits and the watermark scan.
StartRun ==
  /\ EnterSync
  /\ commitsData' = listCommits(commits, head)
  /\ lastTimestamp' = ResolveTimestamp(commitsData')
  /\ commitInfo' = ResolveCommitInfo(commitsData')
  /\ failure' = "none"
  /\ pc' = "fetch"

\* The listCommits call is rejected: the exception leaves sync() before
\* the watermark scan, with nothing listed and nothing fetched.
ListCommitsFail ==
  /\ EnterSync
  /\ commitsData' = << >>
  /\ lastTimestamp' = 0
  /\ commitInfo' = RootCommit.author
  /\ failure' = "api"
  /\ pc' = "failed"

\* One iteration of the do/while loop whose request succeeds.
\* Line 193: the first request is not retried, every later one five times.
maxRetriesFor(resp) == IF resp = NoResponse THEN 0 ELSE MAX_RETRIES

\* Line 186: the wait before retry number k, in milliseconds.
RetryWait(k) == (BACKOFF_BASE ^ k) * 1000

\* Line 181: the catch block rethrows instead of retrying.
RethrownLate(count, maxRetries) == count > maxRetries
Rethrown(count, maxRetries) == count >= maxRetries

\* Where an exception thrown inside sync() leaves the run: main()'s catch.
AfterThrowSwallowed == "replay"
AfterThrow == "failed"

\* Lines 199-204: the loop goes on for another page.
FetchMoreIgnoringStop(cont, has_next) == has_next
FetchMore(cont, has_next) == cont /\ has_next

\* One iteration of the fetch loop whose request succeeds (at whichever
\* attempt): the page is read and handed to addToSubmissions.
FetchPage ==
  /\ pc = "fetch"
  /\ LET request == [offset |-> offset, limit |-> LIMIT,
                     lastkey |-> response.last_key]
         page == PageFrom(upstream, request.lastkey, request.limit)
         r == addToSubmissions(page, lastTimestamp, filterDuplicateSecs,
                               submissions_dict, submissions)
         more == FetchMore(r.cont, page.has_next)
     IN  /\ requests' = Append(requests, request)
         /\ retryCount' = 0
         /\ delays' = IF more THEN << INTER_REQUEST_DELAY >> ELSE << >>
         /\ response' = page
         /\ submissions_dict' = r.dict
         /\ submissions' = r.subs
         /\ ret' = [cont |-> r.cont, seen |-> r.seen]
         /\ offset' = IF r.cont THEN offset + 20 ELSE offset
         /\ pc' = IF more THEN "fetch" ELSE "replay"
         /\ i' = IF more THEN i ELSE Len(r.subs)
         /\ latestCommitSHA' = IF more THEN latestCommitSHA
                               ELSE commitsData[1].sha
         /\ treeSHA' = IF more THEN treeSHA ELSE commitsData[1].commit.tree
  /\ UNCHANGED << sideVars, envVars, repoVars, runs, failure, headerVars,
                  treeResponse, commitResponse, calls, created, startEnv, prev
                  >>

\* The last attempt of a page request fails: the catch block rethrows, and
\* the exception leaves sync().
FetchFail ==
  /\ pc = "fetch"
  /\ Rethrown(retryCount, maxRetriesFor(response))
  /\ requests' = Append(requests, [offset |-> offset, limit |-> LIMIT,
                                   lastkey |-> response.last_key])
  /\ pc' = AfterThrow
  /\ failure' = "fetch"
  /\ UNCHANGED << retryVars, sideVars, envVars, repoVars, runs, headerVars,
                  response, offset, submissions_dict, submissions, ret,
                  replayVars, calls, created, startEnv, prev >>

\* An attempt of getSubmissions fails with retries left: the catch block
\* waits and calls getSubmissions again.
GetSubmissionsCatch ==
  /\ pc = "fetch"
  /\ ~Rethrown(retryCount, maxRetriesFor(response))
  /\ retryCount' = retryCount + 1
  /\ delays' = Append(delays, RetryWait(retryCount))
  /\ UNCHANGED << sideVars, envVars, repoVars, runs, pc, failure, headerVars,
                  fetchVars, replayVars, calls, created, startEnv, prev >>

\* commit() up to the end of createTree, for submissions[i].
CreateTree ==
  /\ pc = "replay"
  /\ i >= 1
  /\ LET submission == SubmissionAt(submissions, i)
     IN  IF ~HasExtension(submission.lang)
         THEN /\ pc' = "failed"
              /\ failure' = "language"
              /\ UNCHANGED << trees, treeResponse, calls >>
         ELSE /\ trees' = Append(trees, NewTree(treeSHA, submission))
              /\ treeResponse' = Len(trees) + 1
              /\ calls' = [calls EXCEPT !.createTree = @ + 1]
              /\ pc' = "createCommit"
              /\ UNCHANGED failure
  /\ UNCHANGED << retryVars, sideVars, envVars, commits, head, runs, headerVars,
                  fetchVars, i, treeSHA, latestCommitSHA, commitResponse,
                  created, startEnv, prev >>

\* commit() from createTree's answer to createCommit's.
CreateCommit ==
  /\ pc = "createCommit"
  /\ commits' = Append(commits,
                       NewCommit(SubmissionAt(submissions, i), treeResponse,
                                 latestCommitSHA, commitInfo))
  /\ commitResponse' = Len(commits) + 1
  /\ calls' = [calls EXCEPT !.createCommit = @ + 1]
  /\ created' = Append(created, Len(commits) + 1)
  /\ pc' = "updateRef"
  /\ UNCHANGED << retryVars, sideVars, envVars, trees, head, runs, failure,
                  headerVars, fetchVars, i, treeSHA, latestCommitSHA,
                  treeResponse, startEnv, prev >>

\* Line 212: i-- (i counts from 1 here; 0 ends the loop).
NextIndexSkipping(k) == IF k >= 2 THEN k - 2 ELSE 0
NextIndex(k) == k - 1

\* Line 82: force: true.
ForceOff == FALSE
Force == TRUE

\* The hosting service's test for an update that is not forced: the commit
\* the branch points at is an ancestor of the new one.
FastForward(store, from, to) ==
  LET ancestors == Ancestry(store, to, Len(store))
  IN  \E k \in 1..Len(ancestors) : ancestors[k] = from

\* commit() from createCommit's answer to its return, and the loop's i--.
UpdateRef ==
  /\ pc = "updateRef"
  /\ calls' = [calls EXCEPT !.updateRef = @ + 1]
  /\ IF Force \/ FastForward(commits, head, commitResponse)
     THEN /\ head' = commitResponse
          /\ treeSHA' = treeResponse
          /\ latestCommitSHA' = commitResponse
          /\ i' = NextIndex(i)
          /\ pc' = "replay"
          /\ UNCHANGED failure
     ELSE /\ pc' = "failed"
          /\ failure' = "conflict"
          /\ UNCHANGED << head, treeSHA, latestCommitSHA, i >>
  /\ UNCHANGED << retryVars, sideVars, envVars, commits, trees, runs,
                  headerVars, fetchVars, treeResponse, commitResponse,
                  created, startEnv, prev >>

\* The hosting call the run is about to make is rejected.
ApiFail ==
  /\ \/ pc = "replay" /\ i >= 1
           /\ HasExtension(SubmissionAt(submissions, i).lang)
           /\ calls' = [calls EXCEPT !.createTree = @ + 1]
     \/ pc = "createCommit"
           /\ calls' = [calls EXCEPT !.createCommit = @ + 1]
     \/ pc = "updateRef"
           /\ calls' = [calls EXCEPT !.updateRef = @ + 1]
  /\ pc' = "failed"
  /\ failure' = "api"
  /\ UNCHANGED << retryVars, sideVars, envVars, repoVars, runs, headerVars,
                  fetchVars, replayVars, created, startEnv, prev >>

\* The replay loop ends: 'Done syncing all submissions.'
Finish ==
  /\ pc = "replay"
  /\ i = 0
  /\ pc' = "done"
  /\ UNCHANGED << retryVars, sideVars, envVars, repoVars, runs, failure,
                  headerVars, fetchVars, replayVars, calls, created, startEnv,
                  prev >>

Next ==
  \/ NewSubmission
  \/ ExternalPush
  \/ StartRun
  \/ ListCommitsFail
  \/ FetchPage
  \/ FetchFail
  \/ GetSubmissionsCatch
  \/ CreateTree
  \/ CreateCommit
  \/ UpdateRef
  \/ ApiFail
  \/ Finish

Spec == Init /\ [][Next]_vars

TypeOK ==
  /\ pc \in {"idle", "fetch", "replay", "createCommit", "updateRef",
             "done", "failed"}
  /\ head \in 1..Len(commits)
  /\ i \in 0..Len(submissions)
  /\ retryCount \in 0..MAX_RETRIES
  /\ delays \in Seq(Nat)

\* ------------------------------------------- addToSubmissions on its own
\* The records of a source list of the given kinds and timestamps, the
\* source text of each being its rank from the oldest end of the list.
SourceList(kinds, stamps) ==
  [k \in 1..Len(kinds) |->
     [title |-> kinds[k].title, lang |-> kinds[k].lang,
      status_display |-> kinds[k].status_display,
      timestamp |-> stamps[k], code |-> Len(kinds) + 1 - k]]

\* The fetch loop over any source list, in any order, for any watermark and
\* any dedup window: the state sync() is in when it enters the loop.
InitDedup ==
  /\ \E n \in 0..MaxSubs :
       \E kinds \in [1..n -> DedupKinds], stamps \in [1..n -> 1..MaxTime] :
          upstream = SourceList(kinds, stamps)
  /\ lastTimestamp \in 0..(MaxTime - 1)
  /\ filterDuplicateSecs \in 0..(MaxTime - 1)
  /\ commits = <<RootCommit>>
  /\ trees = <<RootTree>>
  /\ head = 1
  /\ pushes = 0
  /\ runs = 1
  /\ pc = "fetch"
  /\ failure = "none"
  /\ commitsData = listCommits(commits, head)
  /\ commitInfo = RootCommit.author
  /\ response = NoResponse
  /\ offset = 0
  /\ submissions_dict = EmptyDict
  /\ submissions = << >>
  /\ i = 0
  /\ treeSHA = 0
  /\ latestCommitSHA = 0
  /\ treeResponse = 0
  /\ commitResponse = 0
  /\ ret = NoRet
  /\ requests = << >>
  /\ calls = NoCalls
  /\ created = << >>
  /\ startEnv = [NoEnv EXCEPT !.nsubs = Len(upstream)]
  /\ prev = NoPrev
  /\ retryCount = 0
  /\ delays = << >>
  /\ problemName = NoName
  /\ normalized = NoName
  /\ call = NoCall

NextDedup ==
  \/ FetchPage
  \/ FetchFail
  \/ GetSubmissionsCatch

SpecDedup == InitDedup /\ [][NextDedup]_vars

\* ------------------------------------------------ reading the branch back
Reverse(seq) == [k \in 1..Len(seq) |-> seq[Len(seq) + 1 - k]]

\* The whole first-parent chain of the branch, newest first.
Branch == Ancestry(commits, head, Len(commits))

\* The commits between the tip the run started from and the branch head,
\* oldest first; the whole chain when the tip is not an ancestor of head,
\* none for a run whose listCommits was rejected (it read no tip).
NewChain ==
  IF commitsData = << >> THEN << >>
  ELSE
    LET branch == Branch
        tips == { k \in 1..Len(branch) : branch[k] = commitsData[1].sha }
        upto == IF tips = {} THEN Len(branch)
                ELSE (CHOOSE k \in tips : TRUE) - 1
    IN  Reverse(SubSeq(branch, 1, upto))

\* Epoch seconds of a commit's author and committer dates, as the watermark
\* scan reads them.
AuthorSeconds(sha) == DateParse(commits[sha].author.date) \div 1000
CommitterSeconds(sha) == DateParse(commits[sha].committer.date) \div 1000

\* The submission source text a commit's tree overlay carries.
ContentOf(sha) == trees[commits[sha].tree].content

IsSyncCommit(sha) == StartsWithMarker(commits[sha].message)

\* The sync commits of the branch that carry the given source text.
SyncCommitsOf(branch, code) ==
  { k \in 1..Len(branch) :
      IsSyncCommit(branch[k]) /\ ContentOf(branch[k]) = code }


\* The record of the source with the given source text.
Upstream(code) == upstream[Len(upstream) + 1 - code]

\* No other writer has touched the branch since the current run started.
SoleWriter == pushes = startEnv.pushes

\* The current run follows a run that stopped inside the commit replay.
AfterReplayAbort ==
  /\ prev.outcome = "failed"
  /\ prev.failure \in {"language", "api"}

\* ------------------------------------------------------------------ claims

\* C1: after a run that aborted part-way through the commit replay, the next
\* run recovers a watermark below the timestamp of every submission the
\* aborted run had accumulated but not committed, and when that next run
\* completes against the same source every one of them is on the branch.
C1_ResumeSafety ==
  AfterReplayAbort =>
    /\ \A s \in prev.pending : s.timestamp > lastTimestamp
    /\ (pc = "done" /\ Len(upstream) = prev.nsubs) =>
          LET branch == Branch
          IN  \A s \in prev.pending : SyncCommitsOf(branch, s.code) /= {}

\* C2: a run that follows a completed run, with the same source list and no
\* other writer in between, accumulates nothing and issues no createTree,
\* createCommit or updateRef call.
C2_Idempotent ==
  ( /\ prev.outcome = "done"
    /\ prev.nsubs = Len(upstream)
    /\ prev.pushes = pushes )
  => (submissions = << >> /\ calls = NoCalls /\ created = << >>)

C2_Witness ==
  /\ prev.outcome = "done"
  /\ prev.committed >= 1
  /\ prev.nsubs = Len(upstream)
  /\ prev.pushes = pushes
  /\ pc = "done"
  /\ \E k \in 1..Len(upstream) : upstream[k].timestamp > lastTimestamp

\* C3: over successful runs, with new submissions and any number of commits
\* of other writers between the runs, no submission of the source is
\* committed to the branch more than once.
C3_NoDuplicateCommits ==
  (pc = "done" /\ prev.clean) =>
    LET branch == Branch
    IN  \A code \in 1..Len(upstream) :
           Cardinality(SyncCommitsOf(branch, code)) <= 1

\* C4 as stated: the commits one run creates carry strictly increasing
\* timestamps in creation order, the first above the recovered watermark.
C4_StrictOrder ==
  /\ \A k \in 1..(Len(created) - 1) :
        CommitterSeconds(created[k]) < CommitterSeconds(created[k + 1])
  /\ Len(created) >= 1 => CommitterSeconds(created[1]) > lastTimestamp

\* C4 amended: the commits one run creates carry non-decreasing timestamps
\* in creation order, every one of them above the recovered watermark.
C4_NonDecreasingOrder ==
  /\ \A k \in 1..(Len(created) - 1) :
        CommitterSeconds(created[k]) <= CommitterSeconds(created[k + 1])
  /\ \A k \in 1..Len(created) : CommitterSeconds(created[k]) > lastTimestamp

C4_Witness ==
  /\ pc = "done"
  /\ lastTimestamp > 0
  /\ Len(created) >= 2
  /\ CommitterSeconds(created[1]) = CommitterSeconds(created[2])

\* C5: read back from the tip a run started from to the branch head, the
\* new commits carry non-decreasing author timestamps, each the timestamp
\* of its submission, in the order the source accepted the submissions.
C5_ReadBackOrdered ==
  (runs > 0 /\ SoleWriter) =>
    LET chain == NewChain
    IN  /\ \A k \in 1..(Len(chain) - 1) :
              /\ AuthorSeconds(chain[k]) <= AuthorSeconds(chain[k + 1])
              /\ ContentOf(chain[k]) < ContentOf(chain[k + 1])
        /\ \A k \in 1..Len(chain) :
              /\ ContentOf(chain[k]) \in 1..Len(upstream)
              /\ AuthorSeconds(chain[k]) =
                    Upstream(ContentOf(chain[k])).timestamp

C5_Witness ==
  /\ runs > 0
  /\ SoleWriter
  /\ pc = "done"
  /\ Len(requests) >= 2
  /\ LET chain == NewChain
     IN  /\ Len(chain) >= 2
         /\ AuthorSeconds(chain[1]) < AuthorSeconds(chain[Len(chain)])

\* C9: after a completed run that was the only writer, the branch points to
\* the last commit created, every created commit has the previously created
\* one as its parent (the first one the tip read at the start), every
\* created tree is based on the previously created one, and the chain from
\* the starting tip to the head holds one commit per accumulated submission.
C9_CommitChain ==
  (pc = "done" /\ SoleWriter) =>
    LET n == Len(submissions)
        tip == commitsData[1]
    IN  /\ NewChain = created
        /\ Len(created) = n
        /\ head = IF n = 0 THEN tip.sha ELSE created[n]
        /\ \A k \in 1..Len(created) :
              /\ commits[created[k]].parent =
                    IF k = 1 THEN tip.sha ELSE created[k - 1]
              /\ trees[commits[created[k]].tree].base_tree =
                    IF k = 1 THEN tip.commit.tree
                    ELSE commits[created[k - 1]].tree
              /\ ContentOf(created[k]) = submissions[n + 1 - k].code

C9_Witness ==
  /\ pc = "done"
  /\ SoleWriter
  /\ Len(submissions) >= 2
  /\ lastTimestamp > 0

\* C10: when the replay reaches a submission whose language tag is not a
\* key of the extension map the run fails with no createTree, createCommit
\* or updateRef call made for it (no call is ever in flight for such a
\* submission), the
\* run has created nothing for it or for a newer submission, and every older
\* accumulated submission is on the branch, in order, since the tip the run
\* started from.
C10_UnmappedFatal ==
  /\ pc \in {"createCommit", "updateRef"} =>
        submissions[i].lang \in DOMAIN LANG_TO_EXTENSION
  /\ \A t \in (startEnv.ntrees + 1)..Len(trees) :
        trees[t].path[4] /= "undefined"
  /\ (pc = "failed" /\ failure = "language" /\ SoleWriter) =>
        LET n == Len(submissions)
            chain == NewChain
        IN  /\ submissions[i].lang \notin DOMAIN LANG_TO_EXTENSION
            /\ calls = [createTree |-> n - i, createCommit |-> n - i,
                        updateRef |-> n - i]
            /\ Len(chain) = n - i
            /\ \A k \in 1..Len(chain) :
                  ContentOf(chain[k]) = submissions[n + 1 - k].code
            /\ chain = created
            /\ \A k \in 1..i :
                  /\ \A c \in 1..Len(created) :
                        ContentOf(created[c]) /= submissions[k].code
                  /\ \A t \in (startEnv.ntrees + 1)..Len(trees) :
                        trees[t].content /= submissions[k].code

\* ---------------------------------------------- claims on addToSubmissions
RangeOf(seq) == { seq[k] : k \in 1..Len(seq) }

\* The source delivers newest first.
NewestFirst ==
  \A k \in 1..(Len(upstream) - 1) :
     upstream[k].timestamp >= upstream[k + 1].timestamp

SameKey(a, b) ==
  /\ normalizeName(a.title) = normalizeName(b.title)
  /\ a.lang = b.lang

Kept(k) == upstream[k] \in RangeOf(submissions)

\* Records a and b of the source, a delivered first: both Accepted, both
\* above the watermark, same normalized name and language, less than the
\* dedup window apart.
ClosePair(a, b) ==
  /\ a < b
  /\ upstream[a].status_display = "Accepted"
  /\ upstream[b].status_display = "Accepted"
  /\ upstream[a].timestamp > lastTimestamp
  /\ upstream[b].timestamp > lastTimestamp
  /\ SameKey(upstream[a], upstream[b])
  /\ upstream[a].timestamp - upstream[b].timestamp < filterDuplicateSecs
  /\ upstream[b].timestamp - upstream[a].timestamp < filterDuplicateSecs

\* C6: whatever the pages and the watermark, no record at or below the
\* watermark is in the accumulator, and the call that meets the first such
\* record of its page returns false having processed no later record.
C6_WatermarkExclusion ==
  /\ \A k \in 1..Len(submissions) : submissions[k].timestamp > lastTimestamp
  /\ response /= NoResponse =>
       LET dump == response.submissions_dump
           hits == { k \in 1..Len(dump) : dump[k].timestamp <= lastTimestamp }
       IN  IF hits = {}
           THEN ret = [cont |-> TRUE, seen |-> Len(dump)]
           ELSE LET first == CHOOSE k \in hits : \A j \in hits : k <= j
                IN  /\ ret = [cont |-> FALSE, seen |-> first]
                    /\ \A k \in first..Len(dump) :
                          dump[k] \notin RangeOf(submissions)

C6_Witness ==
  /\ ret.cont = FALSE
  /\ ret.seen < Len(response.submissions_dump)
  /\ LET later == response.submissions_dump[ret.seen + 1]
     IN  /\ later.status_display = "Accepted"
         /\ later.timestamp > lastTimestamp
         /\ later \notin RangeOf(submissions)

\* C7: of a close pair delivered newest first, only the record met first is
\* in the accumulator.  The index entry of a name is an object literal: for
\* the language "__proto__" the write of the timestamp is ignored and the
\* read gives Object.prototype, so both records of a close pair are kept;
\* for any language the window is measured from the last kept record, so
\* the first of a close pair can itself be a dropped duplicate.
C7_KeepsFirstOfClosePair ==
  (pc = "replay" /\ NewestFirst) =>
    \A a, b \in 1..Len(upstream) :
       ClosePair(a, b) => (Kept(a) /\ ~Kept(b))

\* C8: any two records of the accumulator with the same normalized name and
\* language are at least the dedup window apart, the one accumulated first
\* being the newer one.  Two records of the language "__proto__" are both
\* accumulated whatever their distance: the index never holds an entry for
\* that language.
C8_DedupSeparation ==
  \A j, k \in 1..Len(submissions) :
     (j < k /\ SameKey(submissions[j], submissions[k])) =>
        submissions[j].timestamp - submissions[k].timestamp
          >= filterDuplicateSecs

\* The page request in progress, or the one whose failure ended the run.
InPageRequest == pc = "fetch" \/ failure = "fetch"

\* C11: when a page request has exhausted its retries, the run has aborted
\* with that error and has issued no createTree, createCommit or updateRef
\* call, however many pages it had accumulated; it left the branch reference
\* and the object store as it found them.
C11_NoPartialCommit ==
  (failure = "fetch" /\ SoleWriter) =>
     /\ pc = "failed"
     /\ calls = NoCalls
     /\ created = << >>
     /\ head = commitsData[1].sha
     /\ Len(commits) = startEnv.ncommits
     /\ Len(trees) = startEnv.ntrees

\* C11 witness: a later page request failed for good after a page with
\* accepted submissions had been accumulated.
C11_Witness ==
  /\ failure = "fetch"
  /\ SoleWriter
  /\ Len(requests) >= 2
  /\ Len(submissions) >= 1

\* C12: the first page request is attempted exactly once and its failure ends
\* the run; a later page request is attempted at most 6 times, the wait
\* before retry number k (k = 0..4) is 3^k seconds, the sixth failure in a
\* row is rethrown, and a success at any attempt ends the retrying.
C12_RetryBudget ==
  /\ [](InPageRequest =>
          LET first == response = NoResponse
              waits == IF first THEN delays ELSE Tail(delays)
          IN  /\ first => retryCount = 0
              /\ ~first => retryCount \in 0..5
              /\ Len(waits) = retryCount
              /\ \A k \in 0..(retryCount - 1) :
                    waits[k + 1] = (3 ^ k) * 1000
              /\ failure = "fetch" => retryCount = IF first THEN 0 ELSE 5)
  /\ [][(pc = "fetch" /\ response' /= response) => retryCount' = 0]_vars
  /\ [][(pc = "fetch" /\ retryCount = (IF response = NoResponse THEN 0 ELSE 5)
           /\ response' = response /\ pc' /= "fetch") => failure' = "fetch"]_vars

\* C12 witness: a later page request failed six times in a row, after the
\* five backoff waits.
C12_Witness ==
  /\ failure = "fetch"
  /\ response /= NoResponse
  /\ retryCount = 5
  /\ delays = << 1000, 1000, 3000, 9000, 27000, 81000 >>

\* C13: once addToSubmissions has returned false for a page no further page
\* is requested, even if that page says there are more; otherwise the next
\* page is requested exactly when the page says there are more.  The k-th
\* request (from 0) carries offset 20 * k and the last_key of the response
\* before it, the empty key for k = 0.
C13_Pagination ==
  /\ []((response /= NoResponse /\ failure = "none") =>
          /\ ~ret.cont => pc /= "fetch"
          /\ ret.cont => (pc = "fetch" <=> response.has_next))
  /\ [][(pc = "fetch" /\ requests' /= requests) =>
          LET k == Len(requests)
              request == requests'[k + 1]
          IN  /\ Len(requests') = k + 1
              /\ request.offset = 20 * k
              /\ request.lastkey = IF k = 0 THEN NoResponse.last_key
                                   ELSE response.last_key]_vars

\* C13 witness: the loop has stopped on a page that reached the watermark
\* while the source had more pages.
C13_Witness ==
  /\ pc = "replay"
  /\ Len(requests) = 1
  /\ ~ret.cont
  /\ response.has_next

\* The records of the source the fetch loop has examined so far.
Examined ==
  IF response = NoResponse THEN << >>
  ELSE SubSeq(upstream, 1,
              response.last_key - Len(response.submissions_dump) + ret.seen)

\* A record that is not Accepted and lies above the watermark.
Rejected(s) ==
  s.status_display /= "Accepted" /\ s.timestamp > lastTimestamp

\* C18: no record whose status is not Accepted is in the accumulator, every
\* timestamp in the dedup index is that of an accumulated record of that
\* name and language, and the accumulator, the index and the loop's verdict
\* are what they would be had the non-Accepted records above the watermark
\* not been delivered at all: such a record is passed over, suppresses
\* nothing, and the records after it are processed.
C18_NonAcceptedInert ==
  LET without == SelectSeq(Examined, LAMBDA s : ~Rejected(s))
      r == AddLoop(without, 1, lastTimestamp, filterDuplicateSecs,
                   EmptyDict, << >>)
  IN  /\ \A k \in 1..Len(submissions) :
            submissions[k].status_display = "Accepted"
      /\ \A name \in DOMAIN submissions_dict :
            \A lang \in DOMAIN submissions_dict[name] :
               \E k \in 1..Len(submissions) :
                  /\ normalizeName(submissions[k].title) = name
                  /\ submissions[k].lang = lang
                  /\ submissions[k].timestamp = submissions_dict[name][lang]
      /\ submissions = r.subs
      /\ submissions_dict = r.dict
      /\ ret.cont = r.cont

\* C18 witness: the loop has ended, and an Accepted record is accumulated
\* although a non-Accepted record of its name and language was delivered
\* before it, less than the dedup window apart.
C18_Witness ==
  /\ pc = "replay"
  /\ \E j, k \in 1..Len(upstream) :
        /\ j < k
        /\ Rejected(upstream[j])
        /\ upstream[k].status_display = "Accepted"
        /\ SameKey(upstream[j], upstream[k])
        /\ upstream[j].timestamp - upstream[k].timestamp < filterDuplicateSecs
        /\ upstream[j].timestamp >= upstream[k].timestamp
        /\ Kept(k)

\* C14: over the listed commits, newest first, the watermark and the author
\* identity are those of the newest commit whose message starts with the
\* marker (the watermark being its committer time in seconds); with no such
\* commit the watermark is 0 and the identity is that of the oldest listed
\* commit.  Either way the first commit of the replay has the newest listed
\* commit as parent and its tree as base tree.
C14_WatermarkResolution ==
  (runs >= 1 /\ commitsData /= << >>) =>
     LET n == Len(commitsData)
         marked == { k \in 1..n :
                       commitsData[k].commit.message[1]
                         = "Sync LeetCode submission" }
     IN  /\ marked = {} =>
              /\ lastTimestamp = 0
              /\ commitInfo = commitsData[n].commit.author
         /\ \A k \in marked :
              (\A j \in marked : k <= j) =>
                 /\ lastTimestamp = commitsData[k].commit.committer.date.sec
                 /\ commitInfo = commitsData[k].commit.author
         /\ pc \in {"replay", "createCommit", "updateRef"} =>
              (i = Len(submissions) =>
                 /\ latestCommitSHA = commitsData[1].sha
                 /\ treeSHA = commitsData[1].commit.tree)
         /\ created /= << >> =>
              /\ commits[created[1]].parent = commitsData[1].sha
              /\ trees[commits[created[1]].tree].base_tree
                   = commitsData[1].commit.tree

\* C14 witness: the newest marked commit is not the newest listed commit,
\* and the run has created a commit on top of the newest listed one.
C14_Witness ==
  /\ runs >= 1
  /\ created /= << >>
  /\ commitsData[1].commit.message[1] /= "Sync LeetCode submission"
  /\ \E k \in 2..Len(commitsData) :
        /\ commitsData[k].commit.message[1] = "Sync LeetCode submission"
        /\ lastTimestamp = commitsData[k].commit.committer.date.sec
        /\ lastTimestamp > 0

\* The end of one run followed by the start of the next, no other writer
\* having touched the branch since the ended run started.
NextRunAfterSoleWriter ==
  /\ pc \in {"done", "failed"}
  /\ pc' = "fetch"
  /\ pushes = startEnv.pushes

\* C19 as stated: after a run that created at least one commit, the next
\* run's watermark is the timestamp of the submission of the last commit
\* that run created.
C19_WatermarkAfterCreate ==
  [][(NextRunAfterSoleWriter /\ created /= << >>) =>
        lastTimestamp'
          = Upstream(ContentOf(created[Len(created)])).timestamp]_vars

\* C19: after a run that moved the branch to at least one commit it created
\* (completed or aborted part-way), no other writer intervening, the next
\* run's watermark is the timestamp of the submission of the commit the run
\* left at the head; that commit carries the marker and has author and
\* committer time equal to that timestamp.
C19_WatermarkAfterUpdate ==
  [][(NextRunAfterSoleWriter /\ head \in RangeOf(created)) =>
        LET submission == Upstream(ContentOf(head))
        IN  /\ lastTimestamp' = submission.timestamp
            /\ commits[head].message[1] = "Sync LeetCode submission"
            /\ commits[head].author.date.sec = submission.timestamp
            /\ commits[head].committer.date.sec = submission.timestamp
            /\ commits[head].author.date.milli = 0
            /\ commits[head].committer.date.milli = 0]_vars

\* C19 witness: a run that had committed part of its submissions was
\* aborted, and the next run has resolved its watermark from the commit at
\* the head.
C19_Witness ==
  /\ runs = 2
  /\ pc = "fetch"
  /\ prev.outcome = "failed"
  /\ prev.committed >= 1
  /\ prev.pending /= {}
  /\ prev.pushes = startEnv.pushes
  /\ lastTimestamp > 0
  /\ commitsData[1].commit.message[1] = "Sync LeetCode submission"

\* C20: in every state of the replay loop, and after it ended or was ended
\* by a failure of createTree, createCommit or updateRef or by an unmapped
\* language, no other writer intervening, the commits on the branch since
\* the tip the run started from are commits this run created, one for each
\* of the n - i oldest accumulated submissions, oldest first: none is
\* skipped, and none is added for the submission whose step failed or for a
\* newer one.
C20_ReplayPrefix ==
  ( /\ pc \in {"replay", "createCommit", "updateRef", "done", "failed"}
    /\ failure /= "fetch"
    /\ commitsData /= << >>
    /\ SoleWriter )
  => LET chain == NewChain
         n == Len(submissions)
     IN  /\ Len(chain) = n - i
         /\ chain = SubSeq(created, 1, n - i)
         /\ Len(created) \in {n - i, n - i + 1}
         /\ \A k \in 1..Len(chain) :
               /\ commits[chain[k]].message[1] = "Sync LeetCode submission"
               /\ ContentOf(chain[k]) = submissions[n + 1 - k].code
         /\ head = IF chain = << >> THEN commitsData[1].sha
                   ELSE chain[Len(chain)]

\* C20 witness: the replay was ended by a rejected updateRef after an older
\* submission had been committed; the commit made for the failed step is not
\* on the branch.
C20_Witness ==
  /\ pc = "failed"
  /\ failure = "api"
  /\ SoleWriter
  /\ calls.updateRef = 2
  /\ i >= 1
  /\ Len(created) = 2
  /\ head = created[1]

\* ------------------------------------------------------- normalizeName alone
\* Titles over letters of both cases and whitespace.
Alphabet == {"a", "A", "b", " ", "\t"}

Titles ==
  UNION { [1..n -> Alphabet] : n \in 0..MaxTitleLen }

InitNormalize ==
  /\ Dormant
  /\ pc = "normalize"
  /\ problemName \in Titles
  /\ normalized = NoName
  /\ call = NoCall

\* One call of normalizeName.
CallNormalizeName ==
  /\ pc = "normalize"
  /\ normalized' = normalizeName(problemName)
  /\ pc' = "normalized"
  /\ UNCHANGED << envVars, repoVars, runs, failure, headerVars, fetchVars,
                  replayVars, calls, created, startEnv, prev, retryVars,
                  problemName, call >>

NextNormalize == CallNormalizeName

SpecNormalize == InitNormalize /\ [][NextNormalize]_vars

\* C15 as stated: the result is the lower-cased title with every maximal run
\* of whitespace replaced by exactly one underscore.
C15_CollapsesRuns ==
  (pc = "normalized") =>
     LET ws(k) == problemName[k] \in {" ", "\t"}
         keep == SelectSeq([k \in 1..Len(problemName) |-> k],
                           LAMBDA k : ~(ws(k) /\ k > 1 /\ ws(k - 1)))
     IN  normalized =
           [j \in 1..Len(keep) |->
              IF ws(keep[j]) THEN "_"
              ELSE IF problemName[keep[j]] = "A" THEN "a"
              ELSE problemName[keep[j]]]

\* C15: the result has the length of the title; every whitespace character
\* is replaced by its own underscore (two adjacent spaces give two
\* underscores) and every other character is lower-cased in place.
C15_ReplacesEach ==
  (pc = "normalized") =>
     /\ Len(normalized) = Len(problemName)
     /\ \A k \in 1..Len(problemName) :
           normalized[k] =
             IF problemName[k] \in {" ", "\t"} THEN "_"
             ELSE IF problemName[k] = "A" THEN "a"
             ELSE problemName[k]

\* C15 witness: a title with two adjacent whitespace characters has been
\* normalized.
C15_Witness ==
  /\ pc = "normalized"
  /\ \E k \in 1..(Len(problemName) - 1) :
        /\ problemName[k] = " "
        /\ problemName[k + 1] \in {" ", "\t"}
        /\ normalized[k] = "_"
        /\ normalized[k + 1] = "_"

\* ---------------------------------------------- one throttled hosting call
\* The calls sync() makes through the throttled client.
HostingCalls == {"listCommits", "createTree", "createCommit", "updateRef"}

\* What the hosting service answers to one attempt of a call.
Signals == {"ok", "rate", "abuse"}

\* onRateLimit: true (retry) only for options.request.retryCount === 0.
onRateLimitAlways(count) == TRUE
onRateLimit(count) == count = 0

\* onAbuseLimit: warns and returns undefined (no retry).
onAbuseLimit(count) == FALSE

\* The answer to the attempt in progress.
Signal == call.script[call.attempts + 1]

\* The throttling plugin after a limit signal: the request is sent again,
\* with retryCount one higher, when the handler returned true; otherwise
\* the call fails.
Throttled(retry) ==
  IF retry
  THEN [call EXCEPT !.attempts = @ + 1, !.retryCount = @ + 1]
  ELSE [call EXCEPT !.attempts = @ + 1, !.status = "failed"]

InitThrottle ==
  /\ Dormant
  /\ pc = "call"
  /\ problemName = NoName
  /\ normalized = NoName
  /\ \E method \in HostingCalls, script \in [1..MaxSignals -> Signals] :
        call = [method |-> method, script |-> script, retryCount |-> 0,
                attempts |-> 0, status |-> "pending"]

CallPending == pc = "call" /\ call.status = "pending"

\* The attempt is answered normally.
Answered ==
  /\ CallPending
  /\ Signal = "ok"
  /\ call' = [call EXCEPT !.attempts = @ + 1, !.status = "ok"]
  /\ UNCHANGED << envVars, repoVars, runs, pc, failure, headerVars, fetchVars,
                  replayVars, calls, created, startEnv, prev, retryVars,
                  problemName, normalized >>

\* The attempt hits the rate limit: onRateLimit decides.
RateLimited ==
  /\ CallPending
  /\ Signal = "rate"
  /\ call' = Throttled(onRateLimit(call.retryCount))
  /\ UNCHANGED << envVars, repoVars, runs, pc, failure, headerVars, fetchVars,
                  replayVars, calls, created, startEnv, prev, retryVars,
                  problemName, normalized >>

\* The attempt trips abuse detection: onAbuseLimit decides.
AbuseDetected ==
  /\ CallPending
  /\ Signal = "abuse"
  /\ call' = Throttled(onAbuseLimit(call.retryCount))
  /\ UNCHANGED << envVars, repoVars, runs, pc, failure, headerVars, fetchVars,
                  replayVars, calls, created, startEnv, prev, retryVars,
                  problemName, normalized >>

NextThrottle ==
  \/ Answered
  \/ RateLimited
  \/ AbuseDetected

SpecThrottle == InitThrottle /\ [][NextThrottle]_vars

\* C17: for every hosting call, a rate-limit signal on the first attempt is
\* followed by exactly one retry; a rate-limit signal on that retry is
\* followed by no further attempt and the call fails; an abuse signal on
\* any attempt is followed by no retry and the call fails.
C17_ThrottleRetries ==
  (pc = "call") =>
     LET n == call.attempts
         first == IF n >= 1 THEN call.script[1] ELSE "none"
         last == IF n >= 1 THEN call.script[n] ELSE "none"
     IN  /\ n <= 2
         /\ call.retryCount = IF first = "rate" THEN 1 ELSE 0
         /\ n = 2 => first = "rate"
         /\ (call.status = "pending") <=> (n = 0 \/ (n = 1 /\ first = "rate"))
         /\ (call.status = "failed") <=>
               (last = "abuse" \/ (n = 2 /\ last = "rate"))
         /\ (call.status = "ok") <=> (last = "ok")

\* C17 witness: a call was rate-limited, retried once, rate-limited again
\* and failed.
C17_Witness ==
  /\ pc = "call"
  /\ call.status = "failed"
  /\ call.attempts = 2
  /\ call.retryCount = 1
  /\ call.script[1] = "rate"
  /\ call.script[2] = "rate"

\* ------------------------------------------- another writer during a run
\* Another writer pushes one commit on top of the branch while a run is
\* between reading the tip and its last ref update.
RacePush ==
  /\ Running
  /\ pushes < MaxPushes
  /\ commits' = PushOthers(commits, head, 1)
  /\ head' = Len(commits) + 1
  /\ pushes' = pushes + 1
  /\ UNCHANGED << retryVars, sideVars, upstream, trees, runs, pc, failure,
                  headerVars, fetchVars, replayVars, calls, created, startEnv,
                  prev >>

NextRace ==
  \/ NewSubmission
  \/ StartRun
  \/ ListCommitsFail
  \/ FetchPage
  \/ FetchFail
  \/ GetSubmissionsCatch
  \/ CreateTree
  \/ CreateCommit
  \/ UpdateRef
  \/ ApiFail
  \/ Finish
  \/ RacePush

SpecRace == Init /\ [][NextRace]_vars

\* The commits another writer pushed since the current run read the tip.
RacedIn ==
  { sha \in (startEnv.ncommits + 1)..Len(commits) :
      commits[sha].author.name = "other" }

\* C16: when another writer has moved the branch after the run read the
\* tip, a ref update of the run that the hosting service accepts moves the
\* branch to the run's commit, and one it rejects is rejected for a reason
\* of its own, never for the conflict; whenever the branch is at a commit of
\* the run, no commit the other writer pushed meanwhile is among its
\* ancestors; the run never fails on the conflict.
C16_ForcedUpdateClobbers ==
  /\ [][(pc = "updateRef" /\ calls'.updateRef = calls.updateRef + 1) =>
          \/ head' = commitResponse /\ pc' = "replay" /\ failure' = "none"
          \/ head' = head /\ pc' = "failed" /\ failure' = "api"]_vars
  /\ [](failure /= "conflict")
  /\ []((runs >= 1 /\ head \in RangeOf(created)) =>
           LET branch == Branch
           IN  \A k \in 1..Len(branch) : branch[k] \notin RacedIn)

\* C16 witness: the other writer pushed on top of a commit of the run, the
\* run has since moved the branch to a later commit of its own and ended
\* normally.
C16_Witness ==
  /\ pc = "done"
  /\ head \in RangeOf(created)
  /\ \E x \in RacedIn : commits[x].parent \in RangeOf(created)
====
